---- MODULE Spec2Model ----
(***************************************************************************)
(* A model of src/app.js: the local video library.  One action is one      *)
(* browser task (an event handler or a timer callback together with every  *)
(* promise continuation it resumes, since microtasks run before the next   *)
(* task).                                                                  *)
(***************************************************************************)
EXTENDS Integers, Sequences, FiniteSets, TLC

(* ---- bounds of the model ---- *)
MaxScans == 2
MaxFiles == 2
MaxItems == 2
PoolFiles == 4
TagFiles == 1
NumTags == 3
RetagScans == 2
RetagFiles == 1
RetagTags == 2
MaxCatalog == 3
MaxQuery == 2

(* ---- program constants ---- *)
concurrency == 3

VARIABLES
  items,       \* the catalog: sequence of item ids (app.js:25)
  item,        \* every item object ever created, by id: its fields
  db,          \* the tag store: path -> tag list, <<>> when no entry (app.js:22)
  objectURLs,  \* the registry of tracked handles (app.js:27)
  scan,        \* one record per started scan call (async function frame)
  exts,        \* the enrichOne closures that can still run a callback
  displayed,   \* item ids that have a card in the grid
  player,      \* TRUE while a playback view is open
  trip,        \* the last tag edits, for the round-trip properties (history only)
  view         \* the query engine seen alone: a catalog, the search box, the
               \* sort selector and the list that render displays for them

vars == <<items, item, db, objectURLs, scan, exts, displayed, player, trip, view>>

\* the handles: the object URL of item i, and that of the playback view (at most
\* one view is open at a time, and a closed view's URL is never used again)
ItemHandle(i) == <<"item", i>>
PlayerHandle == <<"player", 0>>
TagNames == 1..NumTags

Range(s) == {s[i] : i \in DOMAIN s}

(* ---- files on disk: what a scan finds ---- *)
Paths == 1..(IF MaxFiles > PoolFiles THEN MaxFiles ELSE PoolFiles)
\* the real duration of the file at a path, as the decoder reports it
FileDuration(path) == 30 * path

(* ---- the program state that the sequential code below threads through ---- *)
Cur == [items |-> items, item |-> item, db |-> db, objectURLs |-> objectURLs,
        scan |-> scan, exts |-> exts, displayed |-> displayed]

\* an item object that the catalog, a card or a pending callback still refers to
Referenced(st, i) ==
  \/ i \in Range(st.items)
  \/ i \in st.displayed
  \/ \E e \in st.exts : e.item = i

\* what is left to see of an item object that nothing refers to any more
Garbage(r) ==
  [r EXCEPT !.duration = 0, !.thumb = FALSE, !.tags = <<>>, !.extractions = 0]

collect(st) ==
  [i \in DOMAIN st.item |->
     IF Referenced(st, i) THEN st.item[i] ELSE Garbage(st.item[i])]

Becomes(st) ==
  /\ items' = st.items
  /\ item' = collect(st)
  /\ db' = st.db
  /\ objectURLs' = st.objectURLs
  /\ scan' = st.scan
  /\ exts' = st.exts
  /\ displayed' = st.displayed

(* ---- ResourceTracker: app.js:29-52 ---- *)
trackObjectURL(st, h) == [st EXCEPT !.objectURLs = @ \cup {h}]

revokeTrackedURL(st, h) == [st EXCEPT !.objectURLs = @ \ {h}]

cleanupItem(st, i) ==
  IF st.item[i].url
    THEN [revokeTrackedURL(st, ItemHandle(i)) EXCEPT !.item[i].url = FALSE]
    ELSE st

RECURSIVE forEachCleanup(_, _)
forEachCleanup(st, its) ==
  IF its = <<>> THEN st ELSE forEachCleanup(cleanupItem(st, Head(its)), Tail(its))

\* revokeAllObjectURLs without lines 50-51: only the catalog's items are released
revokeCatalogOnly(st) == forEachCleanup(st, st.items)

revokeAllObjectURLs(st) ==
  [forEachCleanup(st, st.items) EXCEPT !.objectURLs = {}]

(* ---- the progress interface: app.js:70-72, called at 88, 133 and 151 ---- *)
\* updateLoading(`Processing d/t`) by pass p: the last report of the pass
updateLoading(st, p, d, t) == [st EXCEPT !.scan[p].reported = <<d, t>>]

(* ---- render: app.js:207-287; the grid is rebuilt from the catalog ---- *)
render(st) == [st EXCEPT !.displayed = Range(st.items)]

(* ---- item creation: app.js:99-105 and 121-131 ---- *)
\* an item created without looking up the tag store
NewItemUntagged(st, path) ==
  [path |-> path, url |-> TRUE, duration |-> 0, thumb |-> FALSE,
   tags |-> <<>>, extractions |-> 0]

NewItem(st, path) ==
  [path |-> path, url |-> TRUE, duration |-> 0, thumb |-> FALSE,
   tags |-> st.db[path], extractions |-> 0]

pushItem(st, path) ==
  LET id == Len(st.item) + 1
      s1 == [st EXCEPT !.item = Append(@, NewItem(st, path))]
      s2 == trackObjectURL(s1, ItemHandle(id))
  IN [s2 EXCEPT !.items = Append(@, id)]

RECURSIVE pushFiles(_, _, _)
pushFiles(st, from, to) ==
  IF from > to THEN st ELSE pushFiles(pushItem(st, from), from + 1, to)

(* ---- Extractor: app.js:158-204 ---- *)
\* the synchronous part of enrichOne: the video element, its listeners, the timer
enrichOne(st, p, i) ==
  [st EXCEPT !.exts = @ \cup {[pass |-> p, item |-> i,
                                srcok |-> st.item[i].url, phase |-> "loading",
                                timer |-> TRUE, done |-> FALSE, fin |-> 0]},
             !.item[i].extractions = @ + 1]

(* ---- EnrichmentScheduler: app.js:140-156 ---- *)
\* the end of enrichAll and the rest of the scan function: app.js:154-155, 90-91
passEnd(st, p) ==
  IF st.scan[p].workers = 0 /\ st.scan[p].pc = "enriching"
    THEN render([st EXCEPT !.scan[p].pc = "finished"])
    ELSE st

\* one evaluation of the worker's loop head: app.js:147-149
workerLoop(st, p) ==
  LET sc == st.scan[p] IN
  IF sc.idx < Len(st.items)
    THEN LET me == st.items[sc.idx + 1]
             s1 == [st EXCEPT !.scan[p].idx = @ + 1]
         IN enrichOne(s1, p, me)
    ELSE [st EXCEPT !.scan[p].workers = @ - 1]

RECURSIVE startWorkers(_, _, _)
startWorkers(st, p, n) ==
  IF n = 0 THEN st ELSE startWorkers(workerLoop(st, p), p, n - 1)

enrichAll(st, p) ==
  LET s1 == [st EXCEPT !.scan[p].pc = "enriching",
                       !.scan[p].total = Len(st.items),
                       !.scan[p].workers = concurrency]
  IN passEnd(startWorkers(s1, p, concurrency), p)

\* a worker resumed after await enrichOne: app.js:150-151, then the loop head
workerResume(st, p) ==
  LET d == st.scan[p].done + 1
      s1 == [st EXCEPT !.scan[p].done = d]
      s2 == updateLoading(s1, p, d, st.scan[p].total)
  IN passEnd(workerLoop(s2, p), p)

\* finalize without its guard `if (done) return`
finalizeUnguarded(st, e) ==
  LET e1 == [e EXCEPT !.done = TRUE, !.fin = @ + 1]
      s1 == [st EXCEPT !.exts = (@ \ {e}) \cup {e1},
                       !.scan[e.pass].finalized = @ + 1]
      s2 == cleanupItem(s1, e.item)
  IN IF e.done THEN s2 ELSE workerResume(s2, e.pass)

\* finalize of the extraction e (e is its record in st.exts): app.js:166-173
finalize(st, e) ==
  IF ~e.done
    THEN LET e1 == [e EXCEPT !.done = TRUE, !.fin = @ + 1]
             s1 == [st EXCEPT !.exts = (@ \ {e}) \cup {e1},
                              !.scan[e.pass].finalized = @ + 1]
             s2 == cleanupItem(s1, e.item)
         IN workerResume(s2, e.pass)
    ELSE st

(* ---- tags: app.js:289-309 ---- *)
\* Array.from(new Set(s)): the first occurrence of each element, in order
RECURSIVE ArrayFromSet(_)
ArrayFromSet(s) ==
  IF s = <<>> THEN <<>>
  ELSE LET init == ArrayFromSet(SubSeq(s, 1, Len(s) - 1))
           last == s[Len(s)]
       IN IF last \in Range(init) THEN init ELSE Append(init, last)

\* addTag without the Set: a plain push
addTagPush(tags, t) == Append(tags, t)

addTag(tags, t) == ArrayFromSet(Append(tags, t))

\* the filter with its test inverted: x === t
removeTagInverted(tags, t) == SelectSeq(tags, LAMBDA x : x = t)

\* the filter of the chip's click handler: app.js:295
removeTag(tags, t) == SelectSeq(tags, LAMBDA x : x # t)

persist(st, i) == [st EXCEPT !.db[st.item[i].path] = st.item[i].tags]

NoTrip == [stage |-> "none"]

NoView == [rendered |-> FALSE]

(* ---- strings: sequences of one-character strings ---- *)
\* String.prototype.toLowerCase on the letters that the queries below use
LowerOf(c) ==
  CASE c = "D" -> "d" [] c = "U" -> "u" [] c = "R" -> "r" [] c = "S" -> "s"
    [] c = "K" -> "k" [] c = "M" -> "m" [] c = "G" -> "g" [] c = "T" -> "t"
    [] c = "B" -> "b" [] c = "A" -> "a" [] c = "C" -> "c" [] OTHER -> c

toLowerCase(str) == [i \in DOMAIN str |-> LowerOf(str[i])]

startsWith(str, pre) ==
  Len(pre) <= Len(str) /\ SubSeq(str, 1, Len(pre)) = pre

\* String.prototype.includes
includes(str, sub) ==
  \E o \in 0..(Len(str) - Len(sub)) : SubSeq(str, o + 1, o + Len(sub)) = sub

slice(str, from) == SubSeq(str, from + 1, Len(str))

Digits == {"0", "1", "2", "3", "4", "5", "6", "7", "8", "9"}

DigitValue(c) ==
  CASE c = "0" -> 0 [] c = "1" -> 1 [] c = "2" -> 2 [] c = "3" -> 3 [] c = "4" -> 4
    [] c = "5" -> 5 [] c = "6" -> 6 [] c = "7" -> 7 [] c = "8" -> 8 [] c = "9" -> 9

\* \d* in place of \d+
AllDigitsOrNone(str) == \A i \in DOMAIN str : str[i] \in Digits

\* \d+ : a nonempty run of digits
AllDigits(str) == str # <<>> /\ \A i \in DOMAIN str : str[i] \in Digits

RECURSIVE DigitsValue(_)
DigitsValue(str) ==
  IF str = <<>> THEN 0
  ELSE 10 * DigitsValue(SubSeq(str, 1, Len(str) - 1)) + DigitValue(str[Len(str)])

(* ---- numbers ---- *)
\* The sizes and the bounds of a size filter exceed 2^31, so a number is kept
\* as n / 10^d * 1024^k: n the digits, d the count of digits after the
\* decimal point, k the power of 1024.
Quantity(n, d, k) == [n |-> n, d |-> d, k |-> k]

RECURSIVE Pow(_, _)
Pow(b, e) == IF e = 0 THEN 1 ELSE b * Pow(b, e - 1)

\* the sign of a - b, exactly
Sign(a, b) ==
  LET A == a.n * Pow(10, b.d)
      B == b.n * Pow(10, a.d)
      small(x, y) == IF x < y THEN -1 ELSE IF x > y THEN 1 ELSE 0
  IN IF a.k = b.k THEN small(A, B)
     ELSE IF a.k > b.k
       THEN (IF A = 0 THEN small(0, B)
             ELSE IF a.k - b.k >= 2 THEN 1
             ELSE small(A * 1024, B))
       ELSE (IF B = 0 THEN small(A, 0)
             ELSE IF b.k - a.k >= 2 THEN -1
             ELSE small(A, B * 1024))

\* Number(num) for num matching \d+(?:\.\d+)?
Number(num) ==
  IF "." \in Range(num)
    THEN LET dot == CHOOSE i \in DOMAIN num : num[i] = "."
         IN Quantity(DigitsValue(SubSeq(num, 1, dot - 1) \o slice(num, dot)),
                     Len(num) - dot, 0)
    ELSE Quantity(DigitsValue(num), 0, 0)

(* ---- the filter parser: app.js:318-340 ---- *)
\* (<=|>=|=|<|>): the alternatives in the order the regular expressions try them
OpAlternatives == << <<"<", "=">>, <<">", "=">>, <<"=">>, <<"<">>, <<">">> >>

UnitAlternatives ==
  { <<"k", "b">>, <<"m", "b">>, <<"g", "b">>, <<"t", "b">> }

\* \d+(?:\.\d+)?
IsNumber(str) ==
  \/ AllDigits(str)
  \/ \E dot \in DOMAIN str :
       /\ str[dot] = "."
       /\ AllDigits(SubSeq(str, 1, dot - 1))
       /\ AllDigits(slice(str, dot))

\* tok.match(/^dur:(<=|>=|=|<|>)(\d+)$/i): the alternatives that lead to a match
DurMatches(tok) ==
  { a \in DOMAIN OpAlternatives :
      /\ Len(tok) >= 4
      /\ toLowerCase(SubSeq(tok, 1, 4)) = <<"d", "u", "r", ":">>
      /\ startsWith(slice(tok, 4), OpAlternatives[a])
      /\ AllDigits(slice(tok, 4 + Len(OpAlternatives[a]))) }

\* the unit that the optional group (kb|mb|gb|tb)? takes from the text after
\* the operator, <<>> when the group takes nothing; {} when nothing matches
SizeUnits(rest) ==
  { u \in UnitAlternatives \cup {<<>>} :
      /\ Len(rest) >= Len(u)
      /\ toLowerCase(slice(rest, Len(rest) - Len(u))) = u
      /\ IsNumber(SubSeq(rest, 1, Len(rest) - Len(u))) }

\* tok.match(/^size:(<=|>=|=|<|>)(\d+(?:\.\d+)?)(kb|mb|gb|tb)?$/i)
SizeMatches(tok) ==
  { a \in DOMAIN OpAlternatives :
      /\ Len(tok) >= 5
      /\ toLowerCase(SubSeq(tok, 1, 5)) = <<"s", "i", "z", "e", ":">>
      /\ startsWith(slice(tok, 5), OpAlternatives[a])
      /\ SizeUnits(slice(tok, 5 + Len(OpAlternatives[a]))) # {} }

\* the first alternative that matches
FirstOf(S) == CHOOSE a \in S : \A b \in S : a <= b

\* parseToken: the filter a token compiles to, as the data its closure holds
parseToken(tok) ==
  IF startsWith(tok, <<"#">>)
    THEN [rule |-> "tag", want |-> toLowerCase(slice(tok, 1))]
  ELSE IF DurMatches(tok) # {}
    THEN LET op == OpAlternatives[FirstOf(DurMatches(tok))]
         IN [rule |-> "dur", op |-> op,
             val |-> Number(slice(tok, 4 + Len(op)))]
  ELSE IF SizeMatches(tok) # {}
    THEN LET op == OpAlternatives[FirstOf(SizeMatches(tok))]
             rest == slice(tok, 5 + Len(op))
             unitRaw == CHOOSE u \in SizeUnits(rest) : TRUE
             unit == IF unitRaw = <<>> THEN <<"b">> ELSE unitRaw
             mul == IF unit = <<"k", "b">> THEN 1
                    ELSE IF unit = <<"m", "b">> THEN 2
                    ELSE IF unit = <<"g", "b">> THEN 3
                    ELSE IF unit = <<"t", "b">> THEN 4 ELSE 0
             num == Number(SubSeq(rest, 1, Len(rest) - Len(unitRaw)))
         IN [rule |-> "size", op |-> op, val |-> Quantity(num.n, num.d, mul)]
  ELSE [rule |-> "plain", s |-> toLowerCase(tok)]

\* cmp with > and >= taken for each other
cmpSwapped(a, op, b) ==
  IF op = <<"<">> THEN Sign(a, b) < 0
  ELSE IF op = <<">">> THEN Sign(a, b) >= 0
  ELSE IF op = <<"=">> THEN Sign(a, b) = 0
  ELSE IF op = <<">", "=">> THEN Sign(a, b) > 0
  ELSE Sign(a, b) <= 0

\* cmp(a, op, b): app.js:340
cmp(a, op, b) ==
  IF op = <<"<">> THEN Sign(a, b) < 0
  ELSE IF op = <<">">> THEN Sign(a, b) > 0
  ELSE IF op = <<"=">> THEN Sign(a, b) = 0
  ELSE IF op = <<">", "=">> THEN Sign(a, b) >= 0
  ELSE Sign(a, b) <= 0

\* the closure that parseToken returned, called on an item
\* the duration of an item whose metadata was never read
undefined == [absent |-> TRUE]

\* x || 0: app.js:221, 326
orZero(x) == IF x = undefined THEN Quantity(0, 0, 0) ELSE x

applyFilter(f, it) ==
  CASE f.rule = "tag" ->
         \E i \in DOMAIN it.tags : includes(toLowerCase(it.tags[i]), f.want)
    [] f.rule = "dur" -> cmp(orZero(it.duration), f.op, f.val)
    [] f.rule = "size" -> cmp(it.size, f.op, f.val)
    [] f.rule = "plain" ->
         includes(toLowerCase(it.name), f.s) \/ includes(toLowerCase(it.path), f.s)

(* ---- render as the query engine: app.js:208-224 ---- *)
RECURSIVE trimStart(_)
trimStart(str) ==
  IF str # <<>> /\ Head(str) = " " THEN trimStart(Tail(str)) ELSE str

RECURSIVE trimEnd(_)
trimEnd(str) ==
  IF str # <<>> /\ str[Len(str)] = " "
    THEN trimEnd(SubSeq(str, 1, Len(str) - 1)) ELSE str

trim(str) == trimEnd(trimStart(str))

\* str.split(/\s+/) for a string without leading or trailing white space
RECURSIVE split(_)
split(str) ==
  IF " " \notin Range(str) THEN <<str>>
  ELSE LET sp == CHOOSE i \in DOMAIN str :
                   str[i] = " " /\ \A j \in 1..(i - 1) : str[j] # " "
       IN <<SubSeq(str, 1, sp - 1)>> \o split(trimStart(slice(str, sp)))

\* the order of the characters in String.prototype.localeCompare: punctuation,
\* digits, letters, a lower-case letter before its upper-case one
Collation ==
  <<" ", "-", ":", ".", "#", "<", "=", ">", "0", "1", "2", "3", "4", "5", "6", "7",
    "8", "9", "a", "A", "b", "B", "c", "C", "d", "D", "e", "g", "G", "i", "k", "K",
    "m", "M", "p", "r", "R", "s", "S", "t", "T", "u", "U", "x", "z">>

CharRank(c) == CHOOSE i \in DOMAIN Collation : Collation[i] = c

RECURSIVE lexCompare(_, _)
lexCompare(a, b) ==
  IF a = <<>> /\ b = <<>> THEN 0
  ELSE IF a = <<>> THEN -1
  ELSE IF b = <<>> THEN 1
  ELSE IF CharRank(Head(a)) < CharRank(Head(b)) THEN -1
  ELSE IF CharRank(Head(a)) > CharRank(Head(b)) THEN 1
  ELSE lexCompare(Tail(a), Tail(b))

\* a.localeCompare(b): the letters first, their case only to break a tie
localeCompare(a, b) ==
  IF lexCompare(toLowerCase(a), toLowerCase(b)) # 0
    THEN lexCompare(toLowerCase(a), toLowerCase(b))
    ELSE lexCompare(a, b)

\* sort.endsWith('desc')
endsWithDesc(sort) ==
  Len(sort) >= 4 /\ slice(sort, Len(sort) - 4) = <<"d", "e", "s", "c">>

\* sort.split('-')[0]
sortKey(sort) ==
  IF "-" \in Range(sort)
    THEN SubSeq(sort, 1, (CHOOSE i \in DOMAIN sort :
                            sort[i] = "-" /\ \A j \in 1..(i - 1) : sort[j] # "-") - 1)
    ELSE sort

\* the comparator without the direction
compareItemsAscending(a, b, sort) ==
  LET key == sortKey(sort)
  IN IF key = <<"n", "a", "m", "e">> THEN localeCompare(a.name, b.name)
     ELSE IF key = <<"d", "a", "t", "e">> THEN a.mtime - b.mtime
     ELSE IF key = <<"s", "i", "z", "e">> THEN Sign(a.size, b.size)
     ELSE IF key = <<"d", "u", "r">> THEN Sign(orZero(a.duration), orZero(b.duration))
     ELSE 0

\* the comparator of out.sort: the sign of K * dir (0 where K is undefined)
compareItems(a, b, sort) ==
  LET dir == IF endsWithDesc(sort) THEN -1 ELSE 1
      key == sortKey(sort)
      K == IF key = <<"n", "a", "m", "e">> THEN localeCompare(a.name, b.name)
           ELSE IF key = <<"d", "a", "t", "e">> THEN a.mtime - b.mtime
           ELSE IF key = <<"s", "i", "z", "e">> THEN Sign(a.size, b.size)
           ELSE IF key = <<"d", "u", "r">> THEN Sign(orZero(a.duration), orZero(b.duration))
           ELSE 0
  IN K * dir

\* Array.prototype.sort is stable: x goes behind every element not after it
RECURSIVE insertSorted(_, _, _)
insertSorted(sorted, x, sort) ==
  IF sorted = <<>> THEN <<x>>
  ELSE IF compareItems(sorted[Len(sorted)], x, sort) <= 0
    THEN Append(sorted, x)
    ELSE Append(insertSorted(SubSeq(sorted, 1, Len(sorted) - 1), x, sort),
                sorted[Len(sorted)])

RECURSIVE sortItems(_, _)
sortItems(arr, sort) ==
  IF arr = <<>> THEN <<>>
  ELSE insertSorted(sortItems(SubSeq(arr, 1, Len(arr) - 1), sort), arr[Len(arr)], sort)

\* app.js:208-210
compileQuery(query) ==
  LET q == trim(query)
      tokens == IF q # <<>> THEN split(q) ELSE <<>>
  IN [i \in DOMAIN tokens |-> parseToken(tokens[i])]

\* the filter with some in place of every
filterItemsSome(catalog, filters) ==
  SelectSeq(catalog, LAMBDA it : \E i \in DOMAIN filters : applyFilter(filters[i], it))

\* app.js:211
filterItems(catalog, filters) ==
  SelectSeq(catalog, LAMBDA it : \A i \in DOMAIN filters : applyFilter(filters[i], it))

\* app.js:208-224: the list of items that render makes cards for
renderOut(catalog, query, sort) ==
  sortItems(filterItems(catalog, compileQuery(query)), sort)

(* ---- scans: app.js:82-137, 371-379 ---- *)
\* A click on pickDirBtn runs scanWithFSAccess or scanWithDirectoryInput, as
\* useFSAPI says (app.js:26, 371-379).  The click itself changes nothing; the
\* scan starts when the picker (or the directory input) answers.  A directory
\* input scan is a File System Access scan whose walk nothing interleaves with,
\* so the model offers both on every click and keeps no useFSAPI.
NewScan(n) ==
  [pc |-> "walking", n |-> n, walked |-> 0, total |-> 0, done |-> 0, idx |-> 0,
   workers |-> 0, reported |-> <<>>, finalized |-> 0]

RECURSIVE SumPending(_, _)
SumPending(sc, p) ==
  IF p = 0 THEN 0
  ELSE (IF sc[p].pc = "walking" THEN sc[p].n - sc[p].walked ELSE 0) + SumPending(sc, p - 1)

\* a directory of n files can still be scanned within the bounds of the model
Fits(n) ==
  /\ Len(scan) < MaxScans
  /\ Len(item) + SumPending(scan, Len(scan)) + n <= MaxItems

\* app.js:88-89 and 133-134: the first progress report, then the pass
reportAndEnrich(st, p) == enrichAll(updateLoading(st, p, 0, Len(st.items)), p)

\* app.js:84-86 and 116-118: release everything, then an empty catalog
teardown(st) == [revokeAllObjectURLs(st) EXCEPT !.items = <<>>]

\* a click on pickDirBtn whose directory picker resolves with a directory of
\* n video files: app.js:371-372, 82-87 up to the first await of walkDir
scanWithFSAccess(n) ==
  /\ Becomes([teardown(Cur) EXCEPT !.scan = Append(@, NewScan(n))])
  /\ UNCHANGED <<player, trip, view>>

\* one entry of the directory walk: app.js:94-106
walkDir(p) ==
  /\ scan[p].pc = "walking"
  /\ scan[p].walked < scan[p].n
  /\ Becomes([pushItem(Cur, scan[p].walked + 1) EXCEPT !.scan[p].walked = @ + 1])
  /\ UNCHANGED <<player, trip, view>>

\* the walk is over: app.js:88-89 up to the first await inside enrichAll
walkDone(p) ==
  /\ scan[p].pc = "walking"
  /\ scan[p].walked = scan[p].n
  /\ Becomes(reportAndEnrich(Cur, p))
  /\ UNCHANGED <<player, trip, view>>

\* the change event of the directory input, with n video files: app.js:110-134
scanWithDirectoryInput(n) ==
  /\ LET p == Len(scan) + 1
         s1 == [teardown(Cur) EXCEPT !.scan = Append(@, [NewScan(n) EXCEPT !.walked = n])]
     IN Becomes(reportAndEnrich(pushFiles(s1, 1, n), p))
  /\ UNCHANGED <<player, trip, view>>

(* ---- the callbacks of one extraction: app.js:175-202 ---- *)
\* an extraction whose callbacks can no longer run is forgotten
Live(e) == e.timer \/ e.phase \in {"loading", "seeking"}
forget(st) == [st EXCEPT !.exts = {e \in @ : Live(e)}]

\* loadedmetadata, once: app.js:175-182
LoadedMetadata(e) ==
  /\ e.phase = "loading"
  /\ e.srcok
  /\ LET e1 == [e EXCEPT !.phase = "seeking"]
     IN Becomes([Cur EXCEPT !.exts = (@ \ {e}) \cup {e1},
                            !.item[e.item].duration = FileDuration(item[e.item].path)])
  /\ UNCHANGED <<player, trip, view>>

\* seeked, once; ok is whether the frame capture inside the try succeeds: app.js:184-198
Seeked(e, ok) ==
  /\ e.phase = "seeking"
  /\ LET e1 == [e EXCEPT !.phase = "seeked"]
         s1 == [Cur EXCEPT !.exts = (@ \ {e}) \cup {e1}]
         s2 == IF ok THEN [s1 EXCEPT !.item[e.item].thumb = TRUE] ELSE s1
     IN Becomes(forget(finalize(s2, e1)))
  /\ UNCHANGED <<player, trip, view>>

\* error, once: app.js:200
Error(e) ==
  /\ e.phase \in {"loading", "seeking"}
  /\ LET e1 == [e EXCEPT !.phase = "failed"]
     IN Becomes(forget(finalize([Cur EXCEPT !.exts = (@ \ {e}) \cup {e1}], e1)))
  /\ UNCHANGED <<player, trip, view>>

\* the timer callback without its call of finalize
TimeoutWithoutFinalize(e) ==
  /\ e.timer
  /\ LET e1 == [e EXCEPT !.timer = FALSE]
     IN Becomes(forget([Cur EXCEPT !.exts = (@ \ {e}) \cup {e1}]))
  /\ UNCHANGED <<player, trip, view>>

\* the 4000 ms timer: app.js:202
Timeout(e) ==
  /\ e.timer
  /\ LET e1 == [e EXCEPT !.timer = FALSE]
     IN Becomes(forget(finalize([Cur EXCEPT !.exts = (@ \ {e}) \cup {e1}], e1)))
  /\ UNCHANGED <<player, trip, view>>

(* ---- the search box and the sort selector: app.js:380-381 ---- *)
searchInput ==
  /\ displayed # Range(items)
  /\ Becomes(render(Cur))
  /\ UNCHANGED <<player, trip, view>>

(* ---- the playback view: app.js:343-368 ---- *)
\* a click on the thumb of a card; the open view covers the whole window
openPlayer(i) ==
  /\ i \in displayed
  /\ ~player
  /\ player' = TRUE
  /\ Becomes(trackObjectURL(Cur, PlayerHandle))
  /\ UNCHANGED <<trip, view>>

\* cleanup: the close button or a click on the backdrop: app.js:361
closePlayer ==
  /\ player
  /\ player' = FALSE
  /\ Becomes(revokeTrackedURL(Cur, PlayerHandle))
  /\ UNCHANGED <<trip, view>>

(* ---- tag edits on a card: app.js:269-279, 294-298 ---- *)
\* Enter in the tag input of the card of item i, with the trimmed text t
tagKeydown(i, t) ==
  /\ i \in displayed
  /\ LET s1 == [Cur EXCEPT !.item[i].tags = addTag(@, t)]
     IN /\ Becomes(render(persist(s1, i)))
        /\ trip' = IF trip.stage = "added" /\ trip.item = i /\ trip.tag = t
                     THEN [stage |-> "addedTwice", item |-> i, tag |-> t,
                           before |-> item[i].tags, after |-> s1.item[i].tags]
                     ELSE [stage |-> "added", item |-> i, tag |-> t,
                           before |-> item[i].tags, after |-> s1.item[i].tags]
  /\ UNCHANGED <<player, view>>

\* a click on the chip of tag t on the card of item i
tagChip(i, t) ==
  /\ i \in displayed
  /\ t \in Range(item[i].tags)
  /\ LET s1 == [Cur EXCEPT !.item[i].tags = removeTag(@, t)]
     IN /\ Becomes(render(persist(s1, i)))
        /\ trip' = IF trip.stage = "added" /\ trip.item = i /\ trip.tag = t
                     THEN [stage |-> "removed", item |-> i, tag |-> t,
                           before |-> trip.before, after |-> s1.item[i].tags]
                     ELSE NoTrip
  /\ UNCHANGED <<player, view>>

Init ==
  /\ items = <<>>
  /\ item = <<>>
  /\ db = [p \in Paths |-> <<>>]
  /\ objectURLs = {}
  /\ scan = <<>>
  /\ exts = {}
  /\ displayed = {}
  /\ player = FALSE
  /\ trip = NoTrip
  /\ view = NoView

Next ==
  \/ \E n \in 0..MaxFiles : Fits(n) /\ scanWithFSAccess(n)
  \/ \E p \in DOMAIN scan : walkDir(p)
  \/ \E p \in DOMAIN scan : walkDone(p)
  \/ \E n \in 0..MaxFiles : Fits(n) /\ scanWithDirectoryInput(n)
  \/ \E e \in exts : LoadedMetadata(e)
  \/ \E e \in exts, ok \in BOOLEAN : Seeked(e, ok)
  \/ \E e \in exts : Error(e)
  \/ \E e \in exts : Timeout(e)
  \/ searchInput
  \/ \E i \in displayed : openPlayer(i)
  \/ closePlayer

Spec == Init /\ [][Next]_vars

(* ---- the tag store and the cards alone: the browser after a reload ---- *)
RECURSIVE ListsOver(_, _)
\* the duplicate-free lists of at most n elements of S
ListsOver(S, n) ==
  IF n = 0 THEN {<<>>}
  ELSE LET shorter == ListsOver(S, n - 1)
       IN shorter \cup {Append(l, x) : l \in shorter, x \in S}

TagLists == {l \in ListsOver(TagNames, NumTags) : Cardinality(Range(l)) = Len(l)}

\* loadDB: whatever an earlier session saved (app.js:20-22), for the paths
\* that a scan of this session can find
TagInit ==
  /\ items = <<>>
  /\ item = <<>>
  /\ \E saved \in [1..TagFiles -> TagLists] :
       db = [q \in Paths |-> IF q \in DOMAIN saved THEN saved[q] ELSE <<>>]
  /\ objectURLs = {}
  /\ scan = <<>>
  /\ exts = {}
  /\ displayed = {}
  /\ player = FALSE
  /\ trip = NoTrip
  /\ view = NoView

\* the first scan of the session, its pass ending by timeouts, and the user
\* editing tags on the cards during and after the pass
TagNext ==
  \/ \E n \in 0..TagFiles : scan = <<>> /\ scanWithDirectoryInput(n)
  \/ \E e \in exts : Timeout(e)
  \/ searchInput
  \/ \E i \in displayed, t \in TagNames : tagKeydown(i, t)
  \/ \E i \in displayed, t \in TagNames : tagChip(i, t)

TagSpec == TagInit /\ [][TagNext]_vars

(* ---- tag edits across rescans ---- *)
\* a session that starts with an empty tag store: scans and rescans of the same
\* directory, the passes ending by timeouts, and the user editing tags on
\* whatever cards the grid shows, cards of a replaced catalog included
RetagNext ==
  \/ \E n \in 0..RetagFiles : Len(scan) < RetagScans /\ scanWithDirectoryInput(n)
  \/ \E e \in exts : Timeout(e)
  \/ searchInput
  \/ \E i \in displayed, t \in 1..RetagTags : tagKeydown(i, t)
  \/ \E i \in displayed, t \in 1..RetagTags : tagChip(i, t)

RetagSpec == Init /\ [][RetagNext]_vars

(* ---- a rescan while a pass over a larger directory is running ---- *)
OverlapScans == 2
OverlapFiles == 3

\* the user picks a directory and picks again before the pass has ended; the
\* extractions end by their error events or their timers
OverlapNext ==
  \/ \E n \in 0..OverlapFiles : Len(scan) < OverlapScans /\ scanWithDirectoryInput(n)
  \/ \E e \in exts : Error(e)
  \/ \E e \in exts : Timeout(e)

OverlapSpec == Init /\ [][OverlapNext]_vars

(* ---- the query engine alone ---- *)
\* render, called by the input listener of the search box or the change
\* listener of the sort selector, for what they hold now: app.js:380-381
renderView ==
  /\ view' = [view EXCEPT !.rendered = TRUE,
                          !.filtered = filterItems(view.catalog, compileQuery(view.query)),
                          !.out = renderOut(view.catalog, view.query, view.sort)]
  /\ UNCHANGED <<items, item, db, objectURLs, scan, exts, displayed, player, trip>>

\* the values of the sort selector
SortValues ==
  { <<"n", "a", "m", "e", "-", "a", "s", "c">>, <<"n", "a", "m", "e", "-", "d", "e", "s", "c">>,
    <<"d", "a", "t", "e", "-", "a", "s", "c">>, <<"d", "a", "t", "e", "-", "d", "e", "s", "c">>,
    <<"s", "i", "z", "e", "-", "a", "s", "c">>, <<"s", "i", "z", "e", "-", "d", "e", "s", "c">>,
    <<"d", "u", "r", "-", "a", "s", "c">>, <<"d", "u", "r", "-", "d", "e", "s", "c">> }

\* a catalog after its enrichment pass: four files, one without a duration,
\* two of the same size
QueryItems ==
  { [name |-> <<"c", "a", "t">>, path |-> <<"a">>, size |-> Quantity(10, 0, 0),
     duration |-> Quantity(30, 0, 0), mtime |-> 3, tags |-> << <<"a">> >>],
    [name |-> <<"C", "a", "b">>, path |-> <<"b">>, size |-> Quantity(500, 0, 0),
     duration |-> Quantity(90, 0, 0), mtime |-> 1, tags |-> <<>>],
    [name |-> <<"b", "a", "t">>, path |-> <<"c">>, size |-> Quantity(30, 0, 0),
     duration |-> undefined, mtime |-> 2, tags |-> << <<"A", "b">>, <<"c">> >>],
    [name |-> <<"a", "c", "t">>, path |-> <<"c", "a">>, size |-> Quantity(30, 0, 0),
     duration |-> Quantity(60, 0, 0), mtime |-> 2, tags |-> <<>>] }

\* the lists of at most n different elements of S
Arrangements(S, n) == {l \in ListsOver(S, n) : Cardinality(Range(l)) = Len(l)}

QueryTokens ==
  { <<"c", "a">>, <<"#", "a">>, <<"d", "u", "r", ":", ">", "6", "0">>,
    <<"s", "i", "z", "e", ":", "<", "=", "3", "0">> }

RECURSIVE join(_, _)
join(tokens, sep) ==
  IF tokens = <<>> THEN <<>>
  ELSE IF Len(tokens) = 1 THEN tokens[1]
  ELSE tokens[1] \o sep \o join(Tail(tokens), sep)

\* what the user typed: up to MaxQuery tokens, neatly or with spaces around
\* and doubled between them
Typings ==
  {[typed |-> typed, query |-> join(typed, <<" ">>)] :
     typed \in ListsOver(QueryTokens, MaxQuery)}
  \cup {[typed |-> typed, query |-> <<" ">> \o join(typed, <<" ", " ">>) \o <<" ">>] :
           typed \in ListsOver(QueryTokens, MaxQuery)}

\* a catalog, a text in the search box and a sort order, not yet rendered
QueryInit ==
  /\ items = <<>>
  /\ item = <<>>
  /\ db = [p \in Paths |-> <<>>]
  /\ objectURLs = {}
  /\ scan = <<>>
  /\ exts = {}
  /\ displayed = {}
  /\ player = FALSE
  /\ trip = NoTrip
  /\ \E catalog \in Arrangements(QueryItems, MaxCatalog), typing \in Typings,
        sort \in SortValues :
       view = [rendered |-> FALSE, catalog |-> catalog, query |-> typing.query,
               typed |-> typing.typed, sort |-> sort,
               filtered |-> <<>>, out |-> <<>>]

QueryNext == renderView

QuerySpec == QueryInit /\ [][QueryNext]_vars

(* ---- single tokens of the dur: and size: forms ---- *)
\* the pieces a token is typed from, each with what the grammar of the filter
\* language says of it: the relation of an operator ("none": no operator of
\* the language), the value n / 10^d of a number, the power k of 1024 of a unit;
\* class "bad" is a piece that is none of the language, "other" one that
\* differs from a unit of the language by case only
HeadPieces ==
  { [text |-> <<"d", "u", "r", ":">>, field |-> "dur"],
    [text |-> <<"D", "U", "R", ":">>, field |-> "dur"],
    [text |-> <<"s", "i", "z", "e", ":">>, field |-> "size"],
    [text |-> <<"S", "i", "z", "e", ":">>, field |-> "size"] }

OpPieces ==
  { [text |-> <<"<">>, rel |-> "lt"],
    [text |-> <<"<", "=">>, rel |-> "le"],
    [text |-> <<"=">>, rel |-> "eq"],
    [text |-> <<">">>, rel |-> "gt"],
    [text |-> <<">", "=">>, rel |-> "ge"],
    [text |-> <<>>, rel |-> "none"],
    [text |-> <<"=", "<">>, rel |-> "none"],
    [text |-> <<"=", "=">>, rel |-> "none"],
    [text |-> <<"<", ">">>, rel |-> "none"] }

NumPieces ==
  { [text |-> <<"6", "0">>, class |-> "ok", n |-> 60, d |-> 0],
    [text |-> <<"5", "0", "0">>, class |-> "ok", n |-> 500, d |-> 0],
    [text |-> <<"0">>, class |-> "ok", n |-> 0, d |-> 0],
    [text |-> <<"0", "0", "7">>, class |-> "ok", n |-> 7, d |-> 0],
    [text |-> <<"1", ".", "5">>, class |-> "ok", n |-> 15, d |-> 1],
    [text |-> <<>>, class |-> "bad", n |-> 0, d |-> 0],
    [text |-> <<"1", ".">>, class |-> "bad", n |-> 0, d |-> 0],
    [text |-> <<".", "5">>, class |-> "bad", n |-> 0, d |-> 0],
    [text |-> <<"x", "5">>, class |-> "bad", n |-> 0, d |-> 0],
    [text |-> <<"1", "e", "3">>, class |-> "bad", n |-> 0, d |-> 0] }

UnitPieces ==
  { [text |-> <<>>, class |-> "ok", k |-> 0],
    [text |-> <<"b">>, class |-> "ok", k |-> 0],
    [text |-> <<"k", "b">>, class |-> "ok", k |-> 1],
    [text |-> <<"m", "b">>, class |-> "ok", k |-> 2],
    [text |-> <<"g", "b">>, class |-> "ok", k |-> 3],
    [text |-> <<"t", "b">>, class |-> "ok", k |-> 4],
    [text |-> <<"M", "B">>, class |-> "other", k |-> 2],
    [text |-> <<"x", "b">>, class |-> "bad", k |-> 0],
    [text |-> <<"s">>, class |-> "bad", k |-> 0],
    [text |-> <<"k", "i", "b">>, class |-> "bad", k |-> 0] }

TokenParts == [head : HeadPieces, op : OpPieces, num : NumPieces, unit : UnitPieces]

TextOf(parts) == parts.head.text \o parts.op.text \o parts.num.text \o parts.unit.text

\* files of various sizes and durations, some named like a token
TokenItems ==
  { [name |-> <<"c", "a", "t">>, path |-> <<"a">>, size |-> Quantity(400, 0, 2),
     duration |-> Quantity(30, 0, 0), mtime |-> 1, tags |-> <<>>],
    [name |-> <<"c", "a", "b">>, path |-> <<"b">>, size |-> Quantity(600, 0, 2),
     duration |-> Quantity(90, 0, 0), mtime |-> 1, tags |-> <<>>],
    [name |-> <<"b", "a", "t">>, path |-> <<"c">>, size |-> Quantity(500, 0, 0),
     duration |-> undefined, mtime |-> 1, tags |-> <<>>],
    [name |-> <<"a", "c", "t">>, path |-> <<"d">>, size |-> Quantity(0, 0, 0),
     duration |-> Quantity(60, 0, 0), mtime |-> 1, tags |-> <<>>],
    [name |-> <<"D", "U", "R", ":", ">", "1", ".", "5">>, path |-> <<"e">>, size |-> Quantity(1536, 0, 0),
     duration |-> Quantity(90, 0, 0), mtime |-> 1, tags |-> <<>>],
    [name |-> <<"c", "a", "t">>, path |-> <<"s", "i", "z", "e", ":", "<", "5", "0", "0", "b">>, size |-> Quantity(3, 0, 4),
     duration |-> Quantity(0, 0, 0), mtime |-> 1, tags |-> <<>>],
    [name |-> <<"S", "i", "z", "e", ":", "=", "<", "6", "0", "x", "b">>, path |-> <<"f">>, size |-> Quantity(60, 0, 0),
     duration |-> Quantity(60, 0, 0), mtime |-> 1, tags |-> <<>>],
    [name |-> <<"d", "u", "r", ":", ">">>, path |-> <<"g">>, size |-> Quantity(61440, 0, 0),
     duration |-> Quantity(7, 0, 0), mtime |-> 1, tags |-> <<>>] }

\* catalogs of one file, the durations 30, 90, absent, and the sizes
\* 400 * 1024^2 and 600 * 1024^2
TokenCatalogs ==
  {<<it>> : it \in TokenItems}
  \cup { << [name |-> <<"c", "a", "t">>, path |-> <<"a">>, size |-> Quantity(10, 0, 0),
     duration |-> Quantity(30, 0, 0), mtime |-> 1, tags |-> <<>>],
     [name |-> <<"c", "a", "b">>, path |-> <<"b">>, size |-> Quantity(10, 0, 0),
     duration |-> Quantity(90, 0, 0), mtime |-> 1, tags |-> <<>>],
     [name |-> <<"b", "a", "t">>, path |-> <<"c">>, size |-> Quantity(10, 0, 0),
     duration |-> undefined, mtime |-> 1, tags |-> <<>>] >>,
         << [name |-> <<"c", "a", "t">>, path |-> <<"a">>, size |-> Quantity(400, 0, 2),
     duration |-> Quantity(30, 0, 0), mtime |-> 1, tags |-> <<>>],
     [name |-> <<"c", "a", "b">>, path |-> <<"b">>, size |-> Quantity(600, 0, 2),
     duration |-> Quantity(30, 0, 0), mtime |-> 1, tags |-> <<>>] >> }

\* a catalog and one token in the search box, not yet rendered
TokenInit ==
  /\ items = <<>>
  /\ item = <<>>
  /\ db = [p \in Paths |-> <<>>]
  /\ objectURLs = {}
  /\ scan = <<>>
  /\ exts = {}
  /\ displayed = {}
  /\ player = FALSE
  /\ trip = NoTrip
  /\ \E catalog \in TokenCatalogs, parts \in TokenParts :
       view = [rendered |-> FALSE, catalog |-> catalog, query |-> TextOf(parts),
               typed |-> <<TextOf(parts)>>, parts |-> parts,
               sort |-> <<"n", "a", "m", "e", "-", "a", "s", "c">>,
               filtered |-> <<>>, out |-> <<>>]

TokenNext == renderView

TokenSpec == TokenInit /\ [][TokenNext]_vars

(* ---- one pass of the worker pool over a larger directory ---- *)
\* the first scan of a session and its enrichment pass, the user only watching
PoolNext ==
  \/ \E n \in 0..PoolFiles : scan = <<>> /\ scanWithFSAccess(n)
  \/ \E p \in DOMAIN scan : walkDir(p)
  \/ \E p \in DOMAIN scan : walkDone(p)
  \/ \E n \in 0..PoolFiles : scan = <<>> /\ scanWithDirectoryInput(n)
  \/ \E e \in exts : LoadedMetadata(e)
  \/ \E e \in exts, ok \in BOOLEAN : Seeked(e, ok)
  \/ \E e \in exts : Error(e)
  \/ \E e \in exts : Timeout(e)

\* Timers fire: weak fairness of the timer callback, WF_vars(\E e \in exts :
\* Timeout(e)), written out by its definition.  The callback is enabled exactly
\* when a timer is pending, and its steps are the steps that end a pending timer.
TimerPending == \E e \in exts : e.timer

TimerFired ==
  \E e \in exts :
    e.timer /\ ~\E f \in exts' : f.pass = e.pass /\ f.item = e.item /\ f.timer

TimersFire == []<>(~TimerPending) \/ []<><<TimerFired>>_vars

PoolSpec == Init /\ [][PoolNext]_vars /\ TimersFire

(* ---- properties ---- *)
RefNext(i) ==
  \/ i \in Range(items')
  \/ i \in displayed'
  \/ \E e \in exts' : e.item = i

Finished(p) == scan[p].pc = "finished"
Triggered(e) == ~e.timer \/ e.phase \in {"seeked", "failed"}

\* C1: whenever an enrichment pass completes, the registry of tracked handles
\* is empty (the assertion of app.js:155).
C1_RegistryEmptyAtPassEnd ==
  [][\A p \in DOMAIN scan' :
       (scan'[p].pc = "finished" /\ (p \notin DOMAIN scan \/ ~Finished(p)))
          => objectURLs' = {}]_vars

\* C2: for every extraction the side effects of finalize run exactly once:
\* an extraction that is still known has run them once if one of its triggers
\* has fired and not at all otherwise, and the runs counted for a pass are as
\* many as its extractions with a fired trigger, whatever fired afterwards.
C2_FinalizeExactlyOnce ==
  /\ \A e \in exts : e.fin = (IF Triggered(e) THEN 1 ELSE 0) /\ (e.done <=> e.fin = 1)
  /\ \A p \in DOMAIN scan :
       scan[p].finalized
         = scan[p].idx - Cardinality({e \in exts : e.pass = p /\ ~Triggered(e)})

\* a pass is over, every trigger of every one of its extractions has fired
\* (timer and media event both), and finalize ran once for each
C2_Witness ==
  \E p \in DOMAIN scan :
    /\ Finished(p)
    /\ scan[p].idx = 2
    /\ scan[p].finalized = 2
    /\ \A e \in exts : e.pass # p

\* C3: in a pass over an N-item catalog every index 0..N-1 is claimed once and
\* the Extractor runs exactly once on each item: none skipped, none twice.
C3_EachItemExactlyOnce ==
  /\ \A p \in DOMAIN scan : Finished(p) => scan[p].idx = scan[p].total
  /\ \A i \in DOMAIN item : item[i].extractions <= 1

\* C4: the completed value reported by a pass is the number of its finished
\* items, never exceeds the reported total, and equals it when the pass ends.
C4_ProgressWithinTotal ==
  \A p \in DOMAIN scan :
    scan[p].reported # <<>> =>
      /\ scan[p].reported[1] = scan[p].done
      /\ scan[p].reported[1] <= scan[p].reported[2]
      /\ Finished(p) => scan[p].reported[1] = scan[p].reported[2]

\* C5: every enrichment pass eventually completes, given that timers fire,
\* whether or not any decode event ever occurs.
C5_PassCompletes ==
  \A p \in 1..MaxScans :
    (p \in DOMAIN scan /\ scan[p].pc = "enriching")
       ~> (p \in DOMAIN scan /\ scan[p].pc = "finished")

\* a pass over two items is over although no decode event ever occurred:
\* neither item has a duration or a thumbnail
C5_Witness ==
  \E p \in DOMAIN scan :
    /\ Finished(p)
    /\ scan[p].done = PoolFiles
    /\ Len(items) = PoolFiles
    /\ \A i \in Range(items) :
         item[i].extractions = 1 /\ item[i].duration = 0 /\ ~item[i].thumb

\* C6: once an extraction has finalized, the duration and the thumbnail of its
\* item are never written by it afterwards.
C6_NoWriteAfterFinalize ==
  [][\A e \in exts :
       (e.done /\ RefNext(e.item)) =>
          /\ item'[e.item].duration = item[e.item].duration
          /\ item'[e.item].thumb = item[e.item].thumb]_vars

\* the loadedmetadata handler of e runs in this step: it assigns the duration
WritesDuration(e) ==
  e.phase = "loading" /\ e \notin exts' /\ [e EXCEPT !.phase = "seeking"] \in exts'

\* the value half of C7: the duration and the thumbnail of an item, once set,
\* never change and never go back to absent, as long as the item exists
ValuesKept ==
  \A i \in DOMAIN item :
    RefNext(i) =>
      /\ item[i].duration # 0 => item'[i].duration = item[i].duration
      /\ item[i].thumb => item'[i].thumb

\* C7: the duration and the thumbnail of an item are each written at most once
\* over its life (no extraction assigns a duration that is already set), and
\* once set they never change and never go back to absent.
C7_WriteOnce ==
  [][/\ \A e \in exts : item[e.item].duration # 0 => ~WritesDuration(e)
     /\ ValuesKept]_vars

\* the value half alone, which the program keeps
C7_ValuesKept == [][ValuesKept]_vars

\* C8: a rescan tears down before it builds: when a scan starts, every item
\* that existed has lost its handle, the registry holds nothing but the
\* handles of items created after the teardown, and the new catalog holds
\* none of the earlier items.
C8_TeardownBeforeBuild ==
  [][Len(scan') > Len(scan) =>
       /\ \A i \in DOMAIN item : ~item'[i].url /\ ItemHandle(i) \notin objectURLs'
       /\ objectURLs' = {ItemHandle(i) : i \in Range(items')}
       /\ Range(items') \cap DOMAIN item = {}]_vars

\* a rescan has released the handle of an item whose extraction is in flight,
\* and that of the open playback view
C8_Witness ==
  /\ Len(scan) = 2
  /\ player /\ PlayerHandle \notin objectURLs
  /\ \E e \in exts : ~e.done /\ e.srcok /\ ~item[e.item].url

\* C9 as stated: adding a tag x and then removing x gives back the tag set
\* the item had before, for every x.
C9_RoundTripAnyTag ==
  trip.stage = "removed" => Range(trip.after) = Range(trip.before)

\* C9 as amended: for a tag x the item did not have, adding x and then
\* removing x gives back the tag list the item had before.
C9_RoundTripNewTag ==
  (trip.stage = "removed" /\ trip.tag \notin Range(trip.before))
     => trip.after = trip.before

\* a tag the item lacked was added to a list of two tags and removed again
C9_Witness ==
  /\ trip.stage = "removed"
  /\ trip.tag \notin Range(trip.before)
  /\ Len(trip.before) = 2

\* C10: adding a tag twice gives what adding it once gives, and no tag list
\* of an item or of the store ever holds a string twice.
C10_AddIdempotentNoDuplicates ==
  /\ trip.stage = "addedTwice" => trip.after = trip.before
  /\ \A i \in DOMAIN item : Cardinality(Range(item[i].tags)) = Len(item[i].tags)
  /\ \A q \in Paths : Cardinality(Range(db[q])) = Len(db[q])

\* a tag was added a second time to a list of two tags
C10_Witness ==
  /\ trip.stage = "addedTwice"
  /\ Len(trip.after) = 2

\* the item objects that this step creates
Created == DOMAIN item' \ DOMAIN item

\* this step is a tag edit on the card of item i: its tag list changes
Retagged(i) == i \in DOMAIN item /\ item'[i].tags # item[i].tags

\* C11: tags survive a rescan.  Every tag edit records the edited item's new
\* tag list under its path, what is recorded for a path changes only to the
\* result of an edit on a card of that path, and every item that a scan creates starts with exactly the list recorded
\* for its path.
C11_TagsSurviveRescan ==
  [][/\ \A i \in DOMAIN item :
          (Retagged(i) /\ RefNext(i)) => db'[item[i].path] = item'[i].tags
     /\ \A q \in Paths :
          db'[q] # db[q] =>
            \E i \in displayed, t \in 1..RetagTags :
              /\ item[i].path = q
              /\ db'[q] \in {addTag(item[i].tags, t), removeTag(item[i].tags, t)}
     /\ \A i \in Created : item'[i].tags = db[item'[i].path] /\ db' = db]_vars

\* a rescan has created a new item for a path whose recorded tags are two
\* tags, and the item carries them
C11_Witness ==
  \E i \in Range(items) :
    /\ Len(scan) = 2
    /\ Len(item[i].tags) = 2
    /\ item[i].tags = db[item[i].path]
    /\ i \notin displayed

\* an item satisfies every one of the tokens typed
SatisfiesAll(it, typed) ==
  \A k \in DOMAIN typed : applyFilter(parseToken(typed[k]), it)

\* C12: the filter is the conjunction of the tokens: the filtered list is the
\* catalog, in catalog order, without the items that fail some token, and
\* the whole catalog when no token was typed.
C12_FilterIsConjunction ==
  view.rendered =>
    /\ view.filtered = SelectSeq(view.catalog, LAMBDA it : SatisfiesAll(it, view.typed))
    /\ view.typed = <<>> => view.filtered = view.catalog

\* two tokens typed with untidy spacing: an item that satisfies the first
\* token but not the second is left out, another item is kept
C12_Witness ==
  /\ view.rendered
  /\ Len(view.typed) = 2
  /\ view.query # join(view.typed, <<" ">>)
  /\ view.filtered # <<>>
  /\ \E i \in DOMAIN view.catalog :
       /\ applyFilter(parseToken(view.typed[1]), view.catalog[i])
       /\ ~applyFilter(parseToken(view.typed[2]), view.catalog[i])

\* the list is in the order of sgn: no element is after its successor
InOrder(list, sgn(_, _)) ==
  \A i \in 1..(Len(list) - 1) : sgn(list[i], list[i + 1]) <= 0

BySize(a, b) == Sign(a.size, b.size)
\* the duration of an item, 0 when absent
DurationOf(it) == IF it.duration = undefined THEN Quantity(0, 0, 0) ELSE it.duration

ByDuration(a, b) == Sign(DurationOf(a), DurationOf(b))
ByDate(a, b) == a.mtime - b.mtime
ByName(a, b) == localeCompare(a.name, b.name)
Reversed(sgn(_, _), a, b) == sgn(b, a)

\* C16: what render displays is a permutation of the filtered list, ordered
\* by the selected key in the selected direction: for size, descending,
\* every item is at least as large as its successor.
C16_SortedAfterFilter ==
  view.rendered =>
    /\ Len(view.out) = Len(view.filtered)
    /\ Range(view.out) = Range(view.filtered)
    /\ view.sort = <<"s", "i", "z", "e", "-", "d", "e", "s", "c">>
         => InOrder(view.out, LAMBDA a, b : Reversed(BySize, a, b))
    /\ view.sort = <<"s", "i", "z", "e", "-", "a", "s", "c">> => InOrder(view.out, BySize)
    /\ view.sort = <<"d", "u", "r", "-", "d", "e", "s", "c">>
         => InOrder(view.out, LAMBDA a, b : Reversed(ByDuration, a, b))
    /\ view.sort = <<"d", "u", "r", "-", "a", "s", "c">> => InOrder(view.out, ByDuration)
    /\ view.sort = <<"d", "a", "t", "e", "-", "d", "e", "s", "c">>
         => InOrder(view.out, LAMBDA a, b : Reversed(ByDate, a, b))
    /\ view.sort = <<"d", "a", "t", "e", "-", "a", "s", "c">> => InOrder(view.out, ByDate)
    /\ view.sort = <<"n", "a", "m", "e", "-", "d", "e", "s", "c">>
         => InOrder(view.out, LAMBDA a, b : Reversed(ByName, a, b))
    /\ view.sort = <<"n", "a", "m", "e", "-", "a", "s", "c">> => InOrder(view.out, ByName)

\* sizes 10, 500, 30 in catalog order, displayed as 500, 30, 10
C16_Witness ==
  /\ view.rendered
  /\ view.sort = <<"s", "i", "z", "e", "-", "d", "e", "s", "c">>
  /\ Len(view.filtered) = 3
  /\ [i \in 1..3 |-> view.filtered[i].size.n] = <<10, 500, 30>>
  /\ [i \in 1..3 |-> view.out[i].size.n] = <<500, 30, 10>>

\* the relation rel of the filter language holds of a and b
Holds(rel, a, b) ==
  CASE rel = "lt" -> Sign(a, b) < 0
    [] rel = "le" -> Sign(a, b) <= 0
    [] rel = "eq" -> Sign(a, b) = 0
    [] rel = "gt" -> Sign(a, b) > 0
    [] rel = "ge" -> Sign(a, b) >= 0

\* what the search box holds is dur:<op><seconds>, seconds a whole number
IsDurToken(parts) ==
  /\ parts.head.text = <<"d", "u", "r", ":">>
  /\ parts.op.rel # "none"
  /\ parts.num.class = "ok" /\ parts.num.d = 0
  /\ parts.unit.text = <<>>

\* what the search box holds is size:<op><number>[unit], unit one of
\* b, kb, mb, gb, tb or none
IsSizeToken(parts) ==
  /\ parts.head.text = <<"s", "i", "z", "e", ":">>
  /\ parts.op.rel # "none"
  /\ parts.num.class = "ok"
  /\ parts.unit.class = "ok"

\* it begins with dur: or size: and its operator, number or unit is none of
\* the language
IsMalformedToken(parts) ==
  /\ parts.head.text \in {<<"d", "u", "r", ":">>, <<"s", "i", "z", "e", ":">>}
  /\ \/ parts.op.rel = "none"
     \/ parts.num.class = "bad"
     \/ parts.unit.class = "bad"
     \/ parts.head.field = "dur" /\ (parts.num.d > 0 \/ parts.unit.text # <<>>)

Shown == Range(view.out)

\* C13: a token dur:<op><seconds> selects exactly the items whose duration,
\* 0 when absent, stands in the relation op to the number of seconds.
C13_DurationFilter ==
  (view.rendered /\ IsDurToken(view.parts)) =>
     Shown = {it \in Range(view.catalog) :
                Holds(view.parts.op.rel, DurationOf(it), Quantity(view.parts.num.n, 0, 0))}

\* dur:>60 over the durations 30, 90, absent shows the 90-second item only
C13_Witness ==
  /\ view.rendered
  /\ view.query = <<"d", "u", "r", ":", ">", "6", "0">>
  /\ [i \in DOMAIN view.catalog |-> view.catalog[i].duration] =
       <<Quantity(30, 0, 0), Quantity(90, 0, 0), undefined>>
  /\ [i \in DOMAIN view.out |-> view.out[i].duration] = <<Quantity(90, 0, 0)>>

\* C14: a token size:<op><number>[unit] selects exactly the items whose size
\* in bytes stands in the relation op to number * 1024^k, k = 0, 1, 2, 3, 4
\* for the units b, kb, mb, gb, tb and 0 without a unit.
C14_SizeFilter ==
  (view.rendered /\ IsSizeToken(view.parts)) =>
     Shown = {it \in Range(view.catalog) :
                Holds(view.parts.op.rel, it.size,
                      Quantity(view.parts.num.n, view.parts.num.d, view.parts.unit.k))}

\* C14 for the units that the program knows: kb, mb, gb, tb or none
C14_SizeFilterKnownUnits ==
  (view.rendered /\ IsSizeToken(view.parts) /\ view.parts.unit.text # <<"b">>) =>
     Shown = {it \in Range(view.catalog) :
                Holds(view.parts.op.rel, it.size,
                      Quantity(view.parts.num.n, view.parts.num.d, view.parts.unit.k))}

\* size:<500mb over the sizes 400 * 1024^2 and 600 * 1024^2 shows the first only
C14_Witness ==
  /\ view.rendered
  /\ view.query = <<"s", "i", "z", "e", ":", "<", "5", "0", "0", "m", "b">>
  /\ Len(view.catalog) = 2
  /\ [i \in DOMAIN view.out |-> view.out[i].size] = <<Quantity(400, 0, 2)>>

\* C15: a token that begins with dur: or size: and is malformed selects
\* exactly the items whose name or path contains its whole text, whatever the
\* case of the letters; and every token selects some part of the catalog.
C15_MalformedIsPlain ==
  view.rendered =>
    /\ Shown \subseteq Range(view.catalog)
    /\ IsMalformedToken(view.parts) =>
         Shown = {it \in Range(view.catalog) :
                    \/ includes(toLowerCase(it.name), toLowerCase(view.query))
                    \/ includes(toLowerCase(it.path), toLowerCase(view.query))}

\* the malformed token dur:>1.5 shows the file named DUR:>1.5
C15_Witness ==
  /\ view.rendered
  /\ IsMalformedToken(view.parts)
  /\ view.query = <<"d", "u", "r", ":", ">", "1", ".", "5">>
  /\ Shown # {}

\* C17: the item list of an enrichment pass is fixed for the whole pass:
\* no step taken while a pass is running changes the list that its workers
\* index through.
C17_ListFixedDuringPass ==
  [][(\E p \in DOMAIN scan : scan[p].pc = "enriching") => items' = items]_vars

\* the extractions in flight: claimed by a worker and not yet finalized
InFlight == {e \in exts : ~e.done}

\* C18: at most W = 3 extractions are in flight in every reachable state,
\* also when a scan is started before a running pass has ended.
C18_BoundedConcurrency == Cardinality(InFlight) <= concurrency

\* C18 for a single pass: at most W = 3 of its extractions are in flight
C18_BoundedPerPass ==
  \A p \in DOMAIN scan : Cardinality({e \in InFlight : e.pass = p}) <= concurrency

\* C19: every tracked handle is freed at most once: an item's handle is freed
\* when the item loses its url, which it never gets back; the handle of the
\* playback view is freed by the view closing only, and the view never closes
\* on a handle that was freed already.
C19_FreedAtMostOnce ==
  [][/\ \A i \in DOMAIN item :
          /\ item'[i].url => item[i].url
          /\ item[i].url <=> ItemHandle(i) \in objectURLs
     /\ (PlayerHandle \in objectURLs /\ PlayerHandle \notin objectURLs')
          => (player /\ ~player')
     /\ (player /\ ~player') => PlayerHandle \in objectURLs]_vars

\* C19 for the handles of items alone
C19_ItemHandlesFreedOnce ==
  [][\A i \in DOMAIN item :
       /\ item'[i].url => item[i].url
       /\ item[i].url <=> ItemHandle(i) \in objectURLs]_vars

\* C20: every item of the current catalog has the tag list that the store
\* holds for its path.
C20_CatalogMatchesStore ==
  \A i \in Range(items) : item[i].tags = db[item[i].path]

====
